---- MODULE Spec2Model ----
(***************************************************************************)
(* A model of the <router-component> custom element.  The repository holds *)
(* two definitions of the class RouterComponent, both registered under the *)
(* element name "router-component": src/lib/router-component.ts ("lib")    *)
(* and an earlier copy ("legacy", src/unnamed/part_000).  A document can   *)
(* define the element once, so a behaviour runs one of the two throughout. *)
(***************************************************************************)
EXTENDS Integers, Sequences, FiniteSets, TLC

VARIABLES
    defined,        \* which class customElements.define registered
    arrays,         \* the heap: array object -> its IRoute elements
    routesRef,      \* this.routes: the array object each router points at
    parentRouter,   \* this._parentRouter
    currentRoute,   \* this.currentRoute
    childNodes,     \* the light-DOM children of each router (its pages)
    didChangeRoute, \* per router: the listeners of its didChangeRoute event
    popState,       \* the listeners of the global PopState event
    onPushState,    \* the listeners of the global OnPushState event
    currentPath,    \* Router.currentPath
    auth,           \* the application state the guard gAuth reads
    pending,        \* loadPath calls suspended at their await, oldest first
    trace,          \* what the last operation did, in order
    ops,            \* how many operations have run
    started,        \* history: per router, the routes of the loadPath calls that
                    \* reached their await since the router last had none suspended
    rendered        \* history: per router, how many of those have rendered their page

vars == <<defined, arrays, routesRef, parentRouter, currentRoute, childNodes,
          didChangeRoute, popState, onPushState, currentPath, auth, pending, trace, ops,
          started, rendered>>

----------------------------------------------------------------------------
(* Bounds *)

\* loadPath calls that may be suspended at their await at once.
MaxPending == 2

\* Operations (calls, events, resumptions) in one behaviour.
MaxOps == 4

----------------------------------------------------------------------------
(* Values *)

Undefined == "undefined"
Null == "null"
NoRoute == "null"

Routers == {"r1", "r2"}

\* Routers are nested downwards only: a router's parent is created before it.
Rank(r) == CASE r = "r1" -> 1 [] r = "r2" -> 2

CallerArrays == {"A", "B", "C"}

\* The application sets the outer router up with A or B, the inner one with C.
ArraysFor(r) == IF r = "r1" THEN {"A", "B"} ELSE {"C"}

\* The array object `routes: IRoute[] = []` each router is constructed with.
OwnArray(r) == CASE r = "r1" -> "own1" [] r = "r2" -> "own2"

ArrayIds == CallerArrays \cup {OwnArray(r) : r \in Routers}

Paths == {"", "a", "b", "ab", "c"}

\* A JavaScript string as its sequence of characters.
Chars(str) ==
    CASE str = ""    -> <<>>
      [] str = "a"   -> <<"a">>
      [] str = "b"   -> <<"b">>
      [] str = "c"   -> <<"c">>
      [] str = "ab"  -> <<"a", "b">>
      [] str = "^a$" -> <<"^", "a", "$">>
      [] str = "^b$" -> <<"^", "b", "$">>
      [] str = "^$"  -> <<"^", "$">>
      [] str = "^ab$" -> <<"^", "a", "b", "$">>

----------------------------------------------------------------------------
(* The route entries and components the application registers *)

\* An optional field is <<>> when absent and <<v>> when set to v.
None == <<>>
Some(v) == <<v>>
IsNullish(opt) == opt = <<>>

Components == {"PageA", "PageB", "PageC", "Broken", "ModA", "ModB", "ModC", "lazyC",
               "lazyThrow", "promA", "promC", "promFail"}

\* kind: what the value is; result: what calling / awaiting / reading .default gives.
Component(c) ==
    CASE c = "PageA"     -> [kind |-> "class",   ok |-> TRUE,  result |-> "PageA"]
      [] c = "PageB"     -> [kind |-> "class",   ok |-> TRUE,  result |-> "PageB"]
      [] c = "Broken"    -> [kind |-> "class",   ok |-> FALSE, result |-> "Broken"]
      [] c = "ModA"      -> [kind |-> "module",  ok |-> TRUE,  result |-> "PageA"]
      [] c = "ModB"      -> [kind |-> "module",  ok |-> TRUE,  result |-> "PageB"]
      [] c = "PageC"     -> [kind |-> "class",   ok |-> TRUE,  result |-> "PageC"]
      [] c = "ModC"      -> [kind |-> "module",  ok |-> TRUE,  result |-> "PageC"]
      [] c = "lazyC"     -> [kind |-> "factory", ok |-> TRUE,  result |-> "promC"]
      [] c = "lazyThrow" -> [kind |-> "factory", ok |-> FALSE, result |-> "lazyThrow"]
      [] c = "promA"     -> [kind |-> "promise", ok |-> TRUE,  result |-> "ModA"]
      [] c = "promC"     -> [kind |-> "promise", ok |-> TRUE,  result |-> "ModC"]
      [] c = "promFail"  -> [kind |-> "promise", ok |-> FALSE, result |-> "promFail"]

Guards == {"gTrue", "gAuth", "gThrow"}

RouteIds == {"rHome", "rA", "rB", "rRedir", "rBoth", "rNone",
             "rDeny", "rFail", "rLeaf", "rBroken", "rThrow"}

Route(id) ==
    CASE id = "rHome" ->
            [path |-> [regexp |-> FALSE, source |-> ""], component |-> Some("promA"),
             redirectTo |-> None, guards |-> None, scrollToTop |-> None]
      [] id = "rA" ->
            [path |-> [regexp |-> FALSE, source |-> "a"], component |-> Some("lazyC"),
             redirectTo |-> None, guards |-> Some(<<"gTrue", "gAuth", "gTrue">>),
             scrollToTop |-> Some(FALSE)]
      [] id = "rB" ->
            [path |-> [regexp |-> FALSE, source |-> "b"], component |-> Some("ModB"),
             redirectTo |-> None, guards |-> None, scrollToTop |-> Some(TRUE)]
      [] id = "rRedir" ->
            [path |-> [regexp |-> TRUE, source |-> "^ab$"], component |-> None,
             redirectTo |-> Some("a"), guards |-> Some(<<"gTrue">>), scrollToTop |-> None]
      [] id = "rBoth" ->
            [path |-> [regexp |-> FALSE, source |-> "b"], component |-> Some("PageB"),
             redirectTo |-> Some("a"), guards |-> None, scrollToTop |-> None]
      [] id = "rNone" ->
            [path |-> [regexp |-> FALSE, source |-> "a"], component |-> None,
             redirectTo |-> None, guards |-> None, scrollToTop |-> None]
      [] id = "rDeny" ->
            [path |-> [regexp |-> TRUE, source |-> "^$"], component |-> Some("PageA"),
             redirectTo |-> None, guards |-> Some(<<"gAuth", "gThrow">>),
             scrollToTop |-> None]
      [] id = "rFail" ->
            [path |-> [regexp |-> TRUE, source |-> "^a$"], component |-> Some("promFail"),
             redirectTo |-> None, guards |-> None, scrollToTop |-> None]
      [] id = "rLeaf" ->
            [path |-> [regexp |-> TRUE, source |-> "^b$"], component |-> Some("PageA"),
             redirectTo |-> None, guards |-> None, scrollToTop |-> None]
      [] id = "rBroken" ->
            [path |-> [regexp |-> FALSE, source |-> "c"], component |-> Some("Broken"),
             redirectTo |-> None, guards |-> None, scrollToTop |-> None]
      [] id = "rThrow" ->
            [path |-> [regexp |-> FALSE, source |-> "ab"], component |-> Some("lazyThrow"),
             redirectTo |-> None, guards |-> None, scrollToTop |-> None]

\* The array literals the application passes to setup.
ArrayLiteral(a) ==
    CASE a = "A" -> <<"rA", "rB", "rHome">>
      [] a = "B" -> <<"rRedir", "rHome", "rBoth", "rNone">>
      [] a = "C" -> <<"rDeny", "rFail", "rLeaf", "rBroken", "rThrow">>
      [] OTHER   -> <<>>

----------------------------------------------------------------------------
(* JavaScript primitives the class relies on *)

SubSeqAt(s, i, n) == [k \in 1..n |-> s[i + k]]

\* RegExp.test for the patterns used here: literal characters, with an
\* optional leading ^ and trailing $.  An unanchored pattern matches anywhere.
RegExpTest(source, str) ==
    LET src == Chars(source)
        txt == Chars(str)
        atStart == Len(src) > 0 /\ src[1] = "^"
        atEnd == Len(src) > 0 /\ src[Len(src)] = "$"
        from == IF atStart THEN 2 ELSE 1
        to == IF atEnd THEN Len(src) - 1 ELSE Len(src)
        lit == [k \in 1..(to - from + 1) |-> src[from + k - 1]]
    IN \E i \in 0..(Len(txt) - Len(lit)) :
          /\ SubSeqAt(txt, i, Len(lit)) = lit
          /\ atStart => i = 0
          /\ atEnd => i + Len(lit) = Len(txt)

\* String.prototype.match(p) != null: a string p is compiled with new RegExp(p).
StringMatch(str, pattern) == RegExpTest(pattern.source, str)

\* util.isClass
isClass(c) == Component(c).kind = "class"

IsFunction(c) == Component(c).kind \in {"class", "factory"}

\* new module.default() when the module has a default export, else new module().
\* A class constructs its page unless its constructor throws; an arrow
\* function is not a constructor.
Construct(module) ==
    LET m == Component(module)
    IN CASE m.kind = "module" -> [ok |-> Component(m.result).ok, page |-> m.result]
         [] m.kind = "class"  -> [ok |-> m.ok, page |-> module]
         [] OTHER             -> [ok |-> FALSE, page |-> module]

\* guard(this, route)
GuardResult(g, a) ==
    CASE g = "gTrue"  -> "true"
      [] g = "gAuth"  -> IF a THEN "true" ELSE "false"
      [] g = "gThrow" -> "throw"

\* EventTarget.addEventListener ignores a listener that is already registered.
AddListener(ls, r) == IF \E i \in 1..Len(ls) : ls[i] = r THEN ls ELSE Append(ls, r)

RemoveListener(ls, r) == SelectSeq(ls, LAMBDA x : x # r)

ListenerSet(ls) == {ls[i] : i \in 1..Len(ls)}

----------------------------------------------------------------------------
(* RouterComponent *)

isChildRouter(parent) == parent \notin {Null, Undefined}

\* The whole program state as one record, so that a handler and the handlers
\* it calls synchronously compose as functions on it.
State ==
    [defined |-> defined, arrays |-> arrays, routesRef |-> routesRef,
     parentRouter |-> parentRouter, currentRoute |-> currentRoute,
     childNodes |-> childNodes, didChangeRoute |-> didChangeRoute,
     popState |-> popState, onPushState |-> onPushState,
     currentPath |-> currentPath, auth |-> auth, pending |-> pending,
     trace |-> <<>>]

\* The awaits router r's loadPath reached in a trace (at most one per operation).
Awaits(tr, r) == SelectSeq(tr, LAMBDA e : e.ev = "await" /\ e.router = r)

\* Router r has a loadPath suspended at its await.
HasSuspended(q, r) == \E j \in 1..Len(q) : q[j].router = r

Becomes(t) ==
    /\ defined' = t.defined
    /\ arrays' = t.arrays
    /\ routesRef' = t.routesRef
    /\ parentRouter' = t.parentRouter
    /\ currentRoute' = t.currentRoute
    /\ childNodes' = t.childNodes
    /\ didChangeRoute' = t.didChangeRoute
    /\ popState' = t.popState
    /\ onPushState' = t.onPushState
    /\ currentPath' = t.currentPath
    /\ auth' = t.auth
    /\ pending' = t.pending
    /\ trace' = t.trace
    /\ ops < MaxOps
    /\ ops' = ops + 1
    /\ started' = [r \in Routers |->
                     IF Awaits(t.trace, r) = <<>> THEN started[r]
                     ELSE IF HasSuspended(pending, r)
                          THEN Append(started[r], Awaits(t.trace, r)[1].route)
                          ELSE <<Awaits(t.trace, r)[1].route>>]
    /\ rendered' = [r \in Routers |->
                      IF Awaits(t.trace, r) # <<>> /\ ~HasSuspended(pending, r) THEN 0
                      ELSE IF \E k \in 1..Len(t.trace) :
                                 t.trace[k].ev = "appendChild" /\ t.trace[k].router = r
                           THEN rendered[r] + 1
                           ELSE rendered[r]]

\* One observable step of a handler: a call out of the class, a result.
Emit(s, ev, r, route, arg) ==
    [s EXCEPT !.trace = Append(@, [ev |-> ev, router |-> r, route |-> route, arg |-> arg])]

routes(s, r) == s.arrays[s.routesRef[r]]

\* const matchPath = route.path === "" ? /^$/ : route.path   (lib only)
matchPath(s, route) ==
    IF s.defined = "lib" /\ ~route.path.regexp /\ route.path.source = ""
    THEN [regexp |-> TRUE, source |-> "^$"]
    ELSE route.path

RECURSIVE matchFrom(_, _, _, _)
matchFrom(s, rs, path, i) ==
    IF i > Len(rs) THEN NoRoute
    ELSE IF StringMatch(path, matchPath(s, Route(rs[i]))) THEN rs[i]
    ELSE matchFrom(s, rs, path, i + 1)

\* Faulty variant: a path no entry matches falls back to the first entry.
matchRouteOrFirst(s, r, path) ==
    IF matchFrom(s, routes(s, r), path, 1) = NoRoute /\ Len(routes(s, r)) > 0
    THEN routes(s, r)[1]
    ELSE matchFrom(s, routes(s, r), path, 1)

matchRoute(s, r, path) == matchFrom(s, routes(s, r), path, 1)

\* route.component == null && route.redirectTo == null && !(both != null)
misconfigured(route) ==
    /\ IsNullish(route.component)
    /\ IsNullish(route.redirectTo)
    /\ ~(~IsNullish(route.component) /\ ~IsNullish(route.redirectTo))

\* throw out of loadPath: the promise the async function returned rejects
throw(s, r, route, err) == Emit(s, "throw", r, route, err)

\* Faulty variant: the error is rethrown without the NavigationError event.
catchSilently(s, r, route, err) == throw(s, r, route, err)

\* catch (e) { dispatch NavigationError; throw e }
catch(s, r, route, err) ==
    throw(Emit(s, "global", r, route, "NavigationError"), r, route, err)

\* Faulty variant: every guard runs, and the navigation is cancelled if one said no.
RECURSIVE runGuardsAll(_, _, _, _, _)
runGuardsAll(s, r, route, gs, i) ==
    IF i > Len(gs) THEN [s |-> s, out |-> "pass"]
    ELSE LET res == GuardResult(gs[i], s.auth)
             s1 == Emit(s, "guard", r, route, gs[i])
             rest == runGuardsAll(s1, r, route, gs, i + 1)
         IN IF res = "throw" THEN [s |-> s1, out |-> "throw"]
            ELSE IF res = "false" /\ rest.out = "pass" THEN [s |-> rest.s, out |-> "cancel"]
            ELSE rest

\* for (const guard of route.guards) if (!guard(this, route)) ...
RECURSIVE runGuards(_, _, _, _, _)
runGuards(s, r, route, gs, i) ==
    IF i > Len(gs) THEN [s |-> s, out |-> "pass"]
    ELSE LET res == GuardResult(gs[i], s.auth)
             s1 == Emit(s, "guard", r, route, gs[i])
         IN IF res = "throw" THEN [s |-> s1, out |-> "throw"]
            ELSE IF res = "false" THEN [s |-> s1, out |-> "cancel"]
            ELSE runGuards(s1, r, route, gs, i + 1)

\* Faulty variant: the window is scrolled only when the flag is set to true.
scrollIfSet(s, r, route) ==
    IF ~IsNullish(Route(route).scrollToTop) /\ Route(route).scrollToTop[1]
    THEN Emit(s, "scrollTo", r, route, "top")
    ELSE s

\* if (route.scrollToTop == null || route.scrollToTop) window.scrollTo(0, 0)
scroll(s, r, route) ==
    IF IsNullish(Route(route).scrollToTop) \/ Route(route).scrollToTop[1]
    THEN Emit(s, "scrollTo", r, route, "top")
    ELSE s

\* Router.replaceState(null, null, url)
replaceState(s, r, route, url) ==
    [Emit(s, "replaceState", r, route, url) EXCEPT !.currentPath = url]

\* let component = route.component; if (function and not class) component = route.component()
resolveComponent(s, c) ==
    IF s.defined = "lib" /\ IsFunction(c) /\ ~isClass(c)
    THEN [called |-> TRUE, ok |-> Component(c).ok, value |-> Component(c).result]
    ELSE [called |-> FALSE, ok |-> TRUE, value |-> c]

\* A loadPath call suspended at `await Promise.resolve(component)`.
Suspended(r, route, awaiting) == [router |-> r, route |-> route, awaiting |-> awaiting]

RECURSIVE loadPath(_, _, _), notify(_, _, _)

\* this.dispatchEvent(new CustomEvent(DidChangeRoute, ...)): the listeners run
\* synchronously, each up to its first await.
dispatchDidChangeRouteEvent(s, r, route) ==
    notify(Emit(s, "didChangeRoute", r, route, ""), s.didChangeRoute[r], 1)

\* private async onPathChanged () { await this.loadPath(Router.currentPath) }
onPathChanged(s, r) == loadPath(s, r, s.currentPath)

notify(s, ls, i) ==
    IF i > Len(ls) THEN s ELSE notify(onPathChanged(s, ls[i]), ls, i + 1)

\* Faulty variant: NavigationEnd is emitted whether a navigation was made or not.
finishWithEnd(s, r, route, navigate) ==
    LET s1 == scroll(s, r, route)
        s2 == dispatchDidChangeRouteEvent(s1, r, route)
        s3 == Emit(s2, "global", r, route, "NavigationEnd")
    IN Emit(s3, "return", r, route, IF navigate THEN "true" ELSE "false")

\* The end of loadPath, from the scroll to the return.
finish(s, r, route, navigate) ==
    LET s1 == scroll(s, r, route)
        s2 == dispatchDidChangeRouteEvent(s1, r, route)
        s3 == IF navigate THEN Emit(s2, "global", r, route, "NavigationEnd") ELSE s2
    IN Emit(s3, "return", r, route, IF navigate THEN "true" ELSE "false")

\* Faulty variant: the redirect does not return, and the navigation is finished.
redirectAndFinish(s, r, route) ==
    finish(replaceState(s, r, route, Route(route).redirectTo[1]), r, route, TRUE)

\* if (route.redirectTo != null) { Router.replaceState(...); return false }
redirect(s, r, route) ==
    Emit(replaceState(s, r, route, Route(route).redirectTo[1]), "return", r, route, "false")

\* Faulty variant: the route is recorded as current before its component is loaded.
loadEager(s, r, route) ==
    LET c == resolveComponent(s, Route(route).component[1])
        s1 == IF c.called
              THEN Emit(s, "factory", r, route, Route(route).component[1])
              ELSE s
        s2 == [s1 EXCEPT !.currentRoute[r] = route]
    IN IF ~c.ok THEN catch(s2, r, route, "FactoryError")
       ELSE [Emit(s2, "await", r, route, c.value) EXCEPT
               !.pending = Append(@, Suspended(r, route, c.value))]

\* The component is resolved and awaited: loadPath is suspended.
load(s, r, route) ==
    LET c == resolveComponent(s, Route(route).component[1])
        s1 == IF c.called
              THEN Emit(s, "factory", r, route, Route(route).component[1])
              ELSE s
    IN IF ~c.ok THEN catch(s1, r, route, "FactoryError")
       ELSE [Emit(s1, "await", r, route, c.value) EXCEPT
               !.pending = Append(@, Suspended(r, route, c.value))]

\* Faulty variant: every navigation is treated as one to a new route.
navigateAlways(s, r, route) ==
    LET s1 == Emit(s, "global", r, route, "NavigationStart")
    IN IF ~IsNullish(Route(route).redirectTo)
       THEN redirect(s1, r, route)
       ELSE load(s1, r, route)

\* loadPath from `const navigate = ...` to the await.
navigate(s, r, route) ==
    IF s.currentRoute[r] = route THEN finish(s, r, route, FALSE)
    ELSE LET s1 == Emit(s, "global", r, route, "NavigationStart")
         IN IF ~IsNullish(Route(route).redirectTo)
            THEN redirect(s1, r, route)
            ELSE load(s1, r, route)

\* Faulty variant: the children are notified of a cancelled navigation too.
cancelAndNotify(s, r, route) ==
    Emit(dispatchDidChangeRouteEvent(Emit(s, "global", r, route, "NavigationCancel"),
                                     r, route),
         "return", r, route, "false")

\* Router.dispatchEvent(NavigationCancel, route); return false
cancel(s, r, route) ==
    Emit(Emit(s, "global", r, route, "NavigationCancel"), "return", r, route, "false")

\* The guards of loadPath.
checkGuards(s, r, route) ==
    IF IsNullish(Route(route).guards) THEN navigate(s, r, route)
    ELSE LET g == runGuards(s, r, route, Route(route).guards[1], 1)
         IN CASE g.out = "cancel" -> cancel(g.s, r, route)
              [] g.out = "throw" -> catch(g.s, r, route, "GuardError")
              [] OTHER -> navigate(g.s, r, route)

\* private async loadPath (path): up to its first await, return or throw.
loadPath(s, r, path) ==
    LET route == matchRoute(s, r, path)
        s0 == Emit(s, "loadPath", r, route, path)
    IN IF route = NoRoute THEN throw(s0, r, route, "NoRouteError")
       ELSE IF misconfigured(Route(route)) THEN throw(s0, r, route, "ConfigError")
       ELSE checkGuards(s0, r, route)

\* await Promise.resolve(component): a promise settles to its value or rejects,
\* anything else is the value itself.
settle(c) ==
    IF Component(c).kind = "promise"
    THEN [ok |-> Component(c).ok, value |-> Component(c).result]
    ELSE [ok |-> TRUE, value |-> c]

\* Faulty variant: the page is appended and the previous one is left in place.
appendPage(s, r, route, page) ==
    [Emit(s, "appendChild", r, route, page) EXCEPT !.childNodes[r] = Append(@, page)]

\* if (this.childNodes.length > 0) removeChild(childNodes[0]); appendChild(page)
replacePage(s, r, route, page) ==
    LET s1 == IF Len(s.childNodes[r]) > 0
              THEN [Emit(s, "removeChild", r, route, s.childNodes[r][1]) EXCEPT
                      !.childNodes[r] = Tail(@)]
              ELSE s
    IN [Emit(s1, "appendChild", r, route, page) EXCEPT
          !.childNodes[r] = Append(@, page)]

\* loadPath from the await on: instantiate the page, swap it in, notify.
resumeLoadPath(s, k) ==
    LET r == k.router
        route == k.route
        module == settle(k.awaiting)
    IN IF ~module.ok THEN catch(s, r, route, "ComponentError")
       ELSE LET made == Construct(module.value)
            IN IF ~made.ok THEN catch(s, r, route, "ConstructError")
               ELSE LET s1 == Emit(s, "new", r, route, made.page)
                        s2 == replacePage(s1, r, route, made.page)
                        s3 == [s2 EXCEPT !.currentRoute[r] = route]
                    IN finish(s3, r, route, TRUE)

\* async clearRoutes () { this.routes.length = 0 }
clearRoutes(s, r) == [s EXCEPT !.arrays[s.routesRef[r]] = <<>>]

\* Faulty variant: only the global listeners are removed.
tearDownGlobalListeners(s, r) ==
    [s EXCEPT !.popState = RemoveListener(@, r),
              !.onPushState = RemoveListener(@, r)]

\* Faulty variant: only the listener on the parent router is removed.
tearDownParentListener(s, r) ==
    IF isChildRouter(s.parentRouter[r])
    THEN [s EXCEPT !.didChangeRoute[s.parentRouter[r]] = RemoveListener(@, r)]
    ELSE s

hookUpListeners(s, r) ==
    IF isChildRouter(s.parentRouter[r])
    THEN [s EXCEPT !.didChangeRoute[s.parentRouter[r]] = AddListener(@, r)]
    ELSE [s EXCEPT !.popState = AddListener(@, r),
                   !.onPushState = AddListener(@, r)]

tearDownListeners(s, r) ==
    LET s1 == IF isChildRouter(s.parentRouter[r])
              THEN [s EXCEPT !.didChangeRoute[s.parentRouter[r]] = RemoveListener(@, r)]
              ELSE s
    IN [s1 EXCEPT !.popState = RemoveListener(@, r),
                  !.onPushState = RemoveListener(@, r)]

\* set parentRouter (value)
setParentRouter(s, r, value) ==
    hookUpListeners([tearDownListeners(s, r) EXCEPT !.parentRouter[r] = value], r)

\* lib: this.routes = routes;  legacy: for (const route of routes) this.routes.push(route)
assignRoutes(s, r, a) ==
    IF s.defined = "lib"
    THEN [s EXCEPT !.routesRef[r] = a]
    ELSE [s EXCEPT !.arrays[s.routesRef[r]] = @ \o s.arrays[a]]

\* async setup (routes, parentRouter, navigate = true), up to the first await
\* of the loadPath it starts.  The await of clearRoutes resumes in the same
\* task (clearRoutes has completed), before any other handler runs.
setup(s, r, a, p, nav) ==
    LET s1 == assignRoutes(clearRoutes(s, r), r, a)
        s2 == setParentRouter(s1, r, p)
    IN IF nav THEN onPathChanged(s2, r) ELSE s2

\* The browser calls the listeners of a global event in registration order.
fire(s, ls) == notify(s, ls, 1)

RemoveAt(q, i) == [j \in 1..(Len(q) - 1) |-> IF j < i THEN q[j] ELSE q[j + 1]]

----------------------------------------------------------------------------
(* Initial state and operations *)

Init ==
    /\ defined \in {"lib", "legacy"}
    /\ arrays = [a \in ArrayIds |-> ArrayLiteral(a)]
    /\ routesRef = [r \in Routers |-> OwnArray(r)]
    /\ parentRouter = [r \in Routers |-> Undefined]
    /\ currentRoute = [r \in Routers |-> Undefined]
    /\ childNodes = [r \in Routers |-> <<>>]
    /\ didChangeRoute = [r \in Routers |-> <<>>]
    /\ popState = <<>>
    /\ onPushState = <<>>
    /\ currentPath = ""
    /\ auth = FALSE
    /\ pending = <<>>
    /\ trace = <<>>
    /\ ops = 0
    /\ started = [r \in Routers |-> <<>>]
    /\ rendered = [r \in Routers |-> 0]

\* The values the application may pass for a router's parent.
Parents(r) == {Undefined} \cup {p \in Routers : Rank(p) < Rank(r)}

Fits(t) == Len(t.pending) <= MaxPending

\* A call of the router's public interface: the first entry of its trace.
Begin(op, r, arg) == Emit(State, op, r, NoRoute, arg)

\* router.setup(routes, parentRouter, navigate)
Setup(r, a, p, nav) ==
    \E t \in {setup(Begin("setup", r, a), r, a, p, nav)} :
       Fits(t) /\ Becomes(t)

\* The continuation of an await on a value that is no promise is a microtask
\* that is queued already; a promise settles at a time of its own.
Queued(k) == Component(k.awaiting).kind # "promise"

\* loadPath continues after its await.  Microtasks run in the order they were
\* queued, so a continuation runs only after the queued ones started before it;
\* a promise may settle at any time.
LoadPathResume(i) ==
    /\ \A j \in 1..(i - 1) : ~Queued(pending[j])
    /\ \E t \in {resumeLoadPath([State EXCEPT !.pending = RemoveAt(@, i)], pending[i])} :
       Fits(t) /\ Becomes(t)

\* router.clearRoutes()
ClearRoutes(r) ==
    \E t \in {clearRoutes(Begin("clearRoutes", r, ""), r)} : Becomes(t)

\* router.parentRouter = value
SetParentRouter(r, p) ==
    \E t \in {setParentRouter(Begin("parentRouter", r, p), r, p)} : Becomes(t)

\* the element is removed from the document
DisconnectedCallback(r) ==
    \E t \in {tearDownListeners(Begin("disconnectedCallback", r, ""), r)} : Becomes(t)

\* The browser's popstate event, after the history moved to `path`: a task
\* of its own, which starts when no microtask is left.
PopState(path) ==
    /\ \A j \in 1..Len(pending) : ~Queued(pending[j])
    /\ \E t \in {fire([State EXCEPT !.currentPath = path], popState)} :
       Fits(t) /\ Becomes(t)

\* The Router's push-state event, after Router.pushState(path).
OnPushState(path) ==
    \E t \in {fire([State EXCEPT !.currentPath = path], onPushState)} :
       Fits(t) /\ Becomes(t)

\* The application state the guards read changes (a user logs in or out).
ToggleAuth ==
    \E t \in {[State EXCEPT !.auth = ~@]} : Becomes(t)

Next ==
    \/ \E r \in Routers, nav \in BOOLEAN :
          \E a \in ArraysFor(r), p \in Parents(r) : Setup(r, a, p, nav)
    \/ \E i \in 1..Len(pending) : LoadPathResume(i)
    \/ \E r \in Routers : ClearRoutes(r)
    \/ \E r \in Routers : \E p \in Parents(r) : SetParentRouter(r, p)
    \/ \E r \in Routers : DisconnectedCallback(r)
    \/ \E path \in Paths : PopState(path)
    \/ \E path \in Paths : OnPushState(path)
    \/ ToggleAuth

Spec == Init /\ [][Next]_vars

----------------------------------------------------------------------------
(* Reading the trace of the last operation *)

Calls == {"setup", "clearRoutes", "parentRouter", "disconnectedCallback"}

\* What router r's loadPath did during the last operation (a router runs
\* loadPath, or resumes one, at most once per operation).
Nav(r) == SelectSeq(trace, LAMBDA e : e.router = r /\ e.ev \notin Calls)

\* The last operation was a call of one of `names` on router r.
Called(names, r) == Len(trace) > 0 /\ trace[1].ev \in names /\ trace[1].router = r

Has(seq, ev, arg) == \E k \in 1..Len(seq) : seq[k].ev = ev /\ seq[k].arg = arg

HasEv(seq, ev) == \E k \in 1..Len(seq) : seq[k].ev = ev

Min(S) == CHOOSE x \in S : \A y \in S : x <= y

\* The route list router r holds.
Routes(r) == arrays[routesRef[r]]

\* The guards of a route entry, none when the field is absent.
GuardsOf(route) == IF IsNullish(Route(route).guards) THEN <<>> ELSE Route(route).guards[1]

GuardsPassWith(route, a) ==
    \A i \in 1..Len(GuardsOf(route)) : GuardResult(GuardsOf(route)[i], a) = "true"

GuardsPass(route) == GuardsPassWith(route, auth)

----------------------------------------------------------------------------
(* Claims *)

\* The pattern match as the specification words it: an empty pattern string
\* matches the empty path only, any other pattern is searched for in the path.
SpecMatches(route, path) ==
    IF ~Route(route).path.regexp /\ Route(route).path.source = ""
    THEN path = ""
    ELSE StringMatch(path, Route(route).path)

\* C1: every loadPath selects the first entry of the route list, in insertion
\* order, whose pattern matches the path, where an empty pattern string
\* matches the empty path only; it selects none when no entry matches.
C1_FirstMatchInOrder ==
    \A k \in 1..Len(trace) :
       trace[k].ev = "loadPath" =>
          LET rs == Routes(trace[k].router)
              hit == {i \in 1..Len(rs) : SpecMatches(rs[i], trace[k].arg)}
          IN IF hit = {} THEN trace[k].route = NoRoute
             ELSE trace[k].route = rs[Min(hit)]

\* C2: the guards of the matched route run in list order; at the first one
\* that returns false the navigation is cancelled: NavigationCancel is emitted
\* for the route, loadPath returns false, and nothing else happens (no later
\* guard runs, nothing is rendered).  A guard that returns true is followed
\* by the next guard of the list.
C2_GuardsShortCircuit ==
    \A r \in Routers :
       LET nav == Nav(r)
       IN \A k \in 1..Len(nav) :
             nav[k].ev = "guard" =>
                LET route == nav[k].route
                    gs == GuardsOf(route)
                    res == GuardResult(nav[k].arg, auth)
                IN /\ k >= 2 /\ k - 1 <= Len(gs)
                   /\ nav[1].ev = "loadPath" /\ nav[1].route = route
                   /\ nav[k].arg = gs[k - 1]
                   /\ res = "true" /\ k - 1 < Len(gs) => nav[k + 1].ev = "guard"
                   /\ res = "false" =>
                         /\ Len(nav) = k + 2
                         /\ nav[k + 1] = [ev |-> "global", router |-> r, route |-> route,
                                          arg |-> "NavigationCancel"]
                         /\ nav[k + 2] = [ev |-> "return", router |-> r, route |-> route,
                                          arg |-> "false"]

\* A navigation cancelled by the second of three guards.
C2_Witness ==
    \E r \in Routers :
       LET nav == Nav(r)
       IN /\ Len(nav) = 5
          /\ nav[3].ev = "guard" /\ GuardResult(nav[3].arg, auth) = "false"
          /\ Len(GuardsOf(nav[3].route)) = 3
          /\ nav[4].arg = "NavigationCancel"

\* C3 (as claimed): a matched entry with both a component and a redirect
\* target, or with neither, makes loadPath throw the configuration error
\* before anything else; a setup that does not navigate throws nothing.
C3_BothOrNeitherThrows ==
    \A r \in Routers :
       LET nav == Nav(r)
       IN /\ (/\ Len(nav) > 0
              /\ nav[1].ev = "loadPath"
              /\ nav[1].route # NoRoute
              /\ IsNullish(Route(nav[1].route).component)
                    = IsNullish(Route(nav[1].route).redirectTo))
             => /\ Len(nav) = 2
                /\ nav[2].ev = "throw"
                /\ nav[2].arg = "ConfigError"
          /\ (Called({"setup"}, r) /\ Len(nav) = 0) => ~HasEv(trace, "throw")

\* The pattern match of the class that is registered.
BuildMatches(route, path) ==
    IF defined = "lib" THEN SpecMatches(route, path)
    ELSE StringMatch(path, Route(route).path)

NoEntryMatches(rs, path) == \A i \in 1..Len(rs) : ~BuildMatches(rs[i], path)

\* No loadPath of r is left suspended for a route other than those of `before`.
NothingSuspended(r, before, after) ==
    Len(SelectSeq(after, LAMBDA k : k.router = r))
       <= Len(SelectSeq(before, LAMBDA k : k.router = r))

\* C4: when no entry of the route list matches the path, loadPath throws and
\* does nothing else: no other route is selected, nothing is rendered or left
\* pending, and currentRoute and the page stay as they were.
C4_NoMatchThrows ==
    [][\A r \in Routers :
          (/\ Len(Nav(r)') > 0
           /\ Nav(r)'[1].ev = "loadPath"
           /\ NoEntryMatches(Routes(r)', Nav(r)'[1].arg))
          => /\ Nav(r)' = << [ev |-> "loadPath", router |-> r, route |-> NoRoute,
                              arg |-> Nav(r)'[1].arg],
                             [ev |-> "throw", router |-> r, route |-> NoRoute,
                              arg |-> "NoRouteError"] >>
             /\ currentRoute'[r] = currentRoute[r]
             /\ childNodes'[r] = childNodes[r]
             /\ NothingSuspended(r, pending, pending')]_vars

\* A router that shows a page, holds routes, and is sent to a path none of
\* them matches.
C4_Witness ==
    \E r \in Routers :
       /\ Len(Nav(r)) > 0
       /\ Nav(r)[1].ev = "loadPath"
       /\ NoEntryMatches(Routes(r), Nav(r)[1].arg)
       /\ Len(Routes(r)) > 0
       /\ currentRoute[r] # Undefined
       /\ Len(childNodes[r]) = 1

Ev(ev, r, route, arg) == [ev |-> ev, router |-> r, route |-> route, arg |-> arg]

\* C5 (as claimed): every error thrown out of loadPath, whatever its cause,
\* is thrown right after a NavigationError event of that navigation.
C5_EveryThrowAfterNavigationError ==
    \A r \in Routers :
       \A k \in 1..Len(Nav(r)) :
          Nav(r)[k].ev = "throw" =>
             /\ k > 1
             /\ Nav(r)[k - 1].ev = "global"
             /\ Nav(r)[k - 1].arg = "NavigationError"

\* The two errors loadPath throws before it enters its try block.
BeforeTry == {"NoRouteError", "ConfigError"}

\* C5 (amended): an error thrown by a guard, by resolving the component or by
\* constructing the page ends the navigation right after a NavigationError
\* event for the route; the "no route matches" error and the configuration
\* error end it without any NavigationError event.
C5_ThrowAfterNavigationErrorInsideTry ==
    \A r \in Routers :
       \A k \in 1..Len(Nav(r)) :
          Nav(r)[k].ev = "throw" =>
             /\ k = Len(Nav(r))
             /\ IF Nav(r)[k].arg \in BeforeTry
                THEN k = 2 /\ ~Has(Nav(r), "global", "NavigationError")
                ELSE k > 1 /\ Nav(r)[k - 1] = Ev("global", r, Nav(r)[k].route,
                                                 "NavigationError")

\* A navigation that failed while its component was resolved or constructed.
C5_Witness ==
    \E r \in Routers :
       /\ Has(Nav(r), "global", "NavigationError")
       /\ \/ Has(Nav(r), "throw", "ComponentError")
          \/ Has(Nav(r), "throw", "ConstructError")

\* C6: when the matched route has a redirect target, its guards pass and it
\* is not the current route, loadPath emits NavigationStart, calls
\* Router.replaceState with the target and returns false; it resolves no
\* component, renders nothing, leaves currentRoute and the page unchanged
\* and emits neither didChangeRoute nor NavigationEnd.
C6_RedirectShortCircuits ==
    [][\A r \in Routers :
          (/\ Len(Nav(r)') > 0
           /\ Nav(r)'[1].ev = "loadPath"
           /\ Nav(r)'[1].route # NoRoute
           /\ ~IsNullish(Route(Nav(r)'[1].route).redirectTo)
           /\ GuardsPassWith(Nav(r)'[1].route, auth')
           /\ currentRoute[r] # Nav(r)'[1].route)
          => LET route == Nav(r)'[1].route
                 g == Len(GuardsOf(route))
             IN /\ Len(Nav(r)') = g + 4
                /\ Nav(r)'[g + 2] = Ev("global", r, route, "NavigationStart")
                /\ Nav(r)'[g + 3] = Ev("replaceState", r, route, Route(route).redirectTo[1])
                /\ Nav(r)'[g + 4] = Ev("return", r, route, "false")
                /\ currentRoute'[r] = currentRoute[r]
                /\ childNodes'[r] = childNodes[r]
                /\ NothingSuspended(r, pending, pending')]_vars

\* A router that shows a page is sent to a redirecting route.
C6_Witness ==
    \E r \in Routers :
       /\ HasEv(Nav(r), "replaceState")
       /\ Len(childNodes[r]) = 1
       /\ currentRoute[r] # Undefined

IsFactory(route) ==
    /\ ~IsNullish(Route(route).component)
    /\ Component(Route(route).component[1]).kind = "factory"

\* C8 (as claimed): a factory component is called only by a loadPath that
\* matched its route, whose guards passed, that is no redirect and whose
\* route is not the current one (so never by a setup that does not navigate,
\* and never for an entry that was not selected); such a loadPath awaits what
\* the factory returned, and the page is constructed from the module that
\* resolves to.
C8_FactoryCalledLazily ==
    \A r \in Routers :
       LET nav == Nav(r)
       IN /\ \A k \in 1..Len(nav) :
                nav[k].ev = "factory" =>
                   /\ nav[1] = Ev("loadPath", r, nav[k].route, nav[1].arg)
                   /\ nav[k].arg = Route(nav[k].route).component[1]
                   /\ IsNullish(Route(nav[k].route).redirectTo)
                   /\ GuardsPass(nav[k].route)
                   /\ currentRoute[r] # nav[k].route
                   /\ nav[k - 1] = Ev("global", r, nav[k].route, "NavigationStart")
          /\ \A k \in 1..Len(nav) :
                (nav[k].ev = "await" /\ IsFactory(nav[k].route)) =>
                   /\ nav[k - 1] = Ev("factory", r, nav[k].route,
                                      Route(nav[k].route).component[1])
                   /\ nav[k].arg = Component(Route(nav[k].route).component[1]).result
          /\ \A k \in 1..Len(nav) :
                (nav[k].ev = "new" /\ IsFactory(nav[k].route)) =>
                   nav[k].arg = Construct(settle(
                       Component(Route(nav[k].route).component[1]).result).value).page

\* The subscriptions of router r's path-change handler.
Sources(r) ==
    {<<"didChangeRoute", p>> : p \in {q \in Routers : r \in ListenerSet(didChangeRoute[q])}}
    \cup (IF r \in ListenerSet(popState) THEN {<<"PopState", "-">>} ELSE {})
    \cup (IF r \in ListenerSet(onPushState) THEN {<<"OnPushState", "-">>} ELSE {})

\* The one source the value of parentRouter designates.
Designated(r) ==
    IF isChildRouter(parentRouter[r])
    THEN {<<"didChangeRoute", parentRouter[r]>>}
    ELSE {<<"PopState", "-">>, <<"OnPushState", "-">>}

\* C9 (as claimed): after a setup, a parentRouter assignment or a disconnect
\* the handler is subscribed to exactly the source parentRouter designates.
C9_ExactlyOneSource ==
    [][\A r \in Routers :
          Called({"setup", "parentRouter", "disconnectedCallback"}, r)'
             => Sources(r)' = Designated(r)']_vars

\* C9 (amended): the handler is never subscribed to anything but the source
\* parentRouter designates (the parent's didChangeRoute, or else the global
\* PopState and OnPushState together); it is subscribed to exactly that
\* source after a setup or a parentRouter assignment, and to none before the
\* first of them and after a disconnect.
C9_AtMostTheDesignatedSource ==
    [][\A r \in Routers :
          /\ Sources(r)' \in {{}, Designated(r)'}
          /\ Called({"setup", "parentRouter"}, r)' => Sources(r)' = Designated(r)'
          /\ Called({"disconnectedCallback"}, r)' => Sources(r)' = {}]_vars

\* The inner router was just given the outer one as its parent, while the
\* outer one listens to the global events.
C9_Witness ==
    /\ Called({"setup", "parentRouter"}, "r2")
    /\ parentRouter["r2"] = "r1"
    /\ Sources("r2") = {<<"didChangeRoute", "r1">>}
    /\ Sources("r1") = {<<"PopState", "-">>, <<"OnPushState", "-">>}

\* C10 (as claimed): after setup(R, ...) the router holds exactly the entries
\* R held when setup was called, in R's order; after clearRoutes it holds none.
C10_SetupHoldsGivenRoutes ==
    [][\A r \in Routers :
          /\ Called({"setup"}, r)' => Routes(r)' = arrays[trace'[1].arg]
          /\ Called({"clearRoutes"}, r)' => Routes(r)' = <<>>]_vars

\* The page the registered class instantiates from a route's component.
PageOf(route) ==
    LET c == Route(route).component[1]
        awaited == IF defined = "lib" /\ IsFactory(route) THEN Component(c).result ELSE c
    IN Construct(settle(awaited).value).page

\* C11 (as claimed): when two loadPath calls of a router overlapped (the
\* second reached its await while the first was suspended at its own) and
\* both have rendered, the router holds exactly one page, and that page and
\* currentRoute are those of the route of the call that started last,
\* whichever of the two resumed first.
C11_LastStartedWins ==
    \A r \in Routers :
       (/\ Len(started[r]) = 2
        /\ rendered[r] = 2
        /\ ~HasSuspended(pending, r))
       => /\ currentRoute[r] = started[r][2]
          /\ childNodes[r] = <<PageOf(started[r][2])>>

\* C12: when the matched route is the entry currentRoute already holds and
\* its guards pass, loadPath calls no factory, awaits and instantiates
\* nothing, leaves the page and currentRoute as they are, emits neither
\* NavigationStart nor NavigationEnd, dispatches didChangeRoute for the route
\* and returns false.
C12_SameRouteNoOp ==
    [][\A r \in Routers :
          (/\ Len(Nav(r)') > 0
           /\ Nav(r)'[1].ev = "loadPath"
           /\ Nav(r)'[1].route = currentRoute[r]
           /\ GuardsPassWith(Nav(r)'[1].route, auth'))
          => LET route == Nav(r)'[1].route
                 nav == Nav(r)'
             IN /\ \A k \in 1..Len(nav) :
                      nav[k].ev \notin {"factory", "await", "new", "removeChild",
                                        "appendChild", "replaceState", "throw"}
                /\ ~Has(nav, "global", "NavigationStart")
                /\ ~Has(nav, "global", "NavigationEnd")
                /\ \E k \in 1..Len(nav) : nav[k] = Ev("didChangeRoute", r, route, "")
                /\ nav[Len(nav)] = Ev("return", r, route, "false")
                /\ childNodes'[r] = childNodes[r]
                /\ currentRoute'[r] = currentRoute[r]
                /\ NothingSuspended(r, pending, pending')]_vars

\* The outer router is sent to the route it already shows, and the router
\* nested in it is notified.
C12_Witness ==
    /\ Len(Nav("r1")) > 0
    /\ Nav("r1")[1].ev = "loadPath"
    /\ Nav("r1")[1].route = currentRoute["r1"]
    /\ Len(childNodes["r1"]) = 1
    /\ ~HasEv(Nav("r1"), "appendChild")
    /\ HasEv(Nav("r1"), "didChangeRoute")
    /\ parentRouter["r2"] = "r1"
    /\ HasEv(Nav("r2"), "loadPath")

\* How many loadPath calls of router r for `route` are suspended in q.
Count(q, r, route) == Len(SelectSeq(q, LAMBDA k : k.router = r /\ k.route = route))

IsGlobal(e, kind) == e.ev = "global" /\ e.arg = kind

OneOf(a, b, c) == (a /\ ~b /\ ~c) \/ (~a /\ b /\ ~c) \/ (~a /\ ~b /\ c)

\* C13: the global events of a navigation are well bracketed.  A loadPath
\* call is suspended only after it emitted NavigationStart for its route;
\* NavigationEnd is emitted only by such a call when it resumes, for the same
\* route, right before it returns true; NavigationCancel is never preceded
\* by a NavigationStart of its call; a call that emitted NavigationStart ends
\* in exactly one of a redirect (replaceState, return false), a
\* NavigationError or a suspension at the await, and a resumed call ends in
\* exactly one of NavigationEnd or NavigationError.
C13_EventsBracketed ==
    [][\A r \in Routers :
          LET nav == Nav(r)'
              n == Len(nav)
              starts == {k \in 1..n : IsGlobal(nav[k], "NavigationStart")}
              ends == {k \in 1..n : IsGlobal(nav[k], "NavigationEnd")}
              errors == {k \in 1..n : IsGlobal(nav[k], "NavigationError")}
              cancels == {k \in 1..n : IsGlobal(nav[k], "NavigationCancel")}
          IN /\ \A route \in RouteIds :
                   Count(pending', r, route) > Count(pending, r, route) =>
                      /\ Count(pending', r, route) = Count(pending, r, route) + 1
                      /\ nav[1].ev = "loadPath"
                      /\ nav[n].ev = "await" /\ nav[n].route = route
                      /\ \E k \in starts : nav[k].route = route
             /\ \A k \in ends :
                   /\ nav[1].ev = "new" /\ nav[1].route = nav[k].route
                   /\ Count(pending, r, nav[k].route) = Count(pending', r, nav[k].route) + 1
                   /\ k = n - 1
                   /\ nav[n] = Ev("return", r, nav[k].route, "true")
             /\ \A k \in cancels :
                   /\ nav[1].ev = "loadPath"
                   /\ \A j \in starts : j > k
             /\ \A k \in starts :
                   /\ nav[1] = Ev("loadPath", r, nav[k].route, nav[1].arg)
                   /\ starts = {k}
                   /\ ends = {}
                   /\ OneOf(nav[n - 1].ev = "replaceState"
                              /\ nav[n] = Ev("return", r, nav[k].route, "false"),
                            (n - 1) \in errors /\ nav[n].ev = "throw",
                            nav[n].ev = "await"
                              /\ Count(pending', r, nav[k].route)
                                    = Count(pending, r, nav[k].route) + 1)
             /\ (n > 0 /\ nav[1].ev # "loadPath") =>
                   /\ Count(pending, r, nav[1].route) = Count(pending', r, nav[1].route) + 1
                   /\ starts = {} /\ cancels = {}
                   /\ ~HasEv(nav, "replaceState")
                   /\ Cardinality(ends \cup errors) = 1
                   /\ errors # {} => nav[n].ev = "throw" /\ errors = {n - 1}]_vars

\* A navigation that was suspended after its NavigationStart resumes and
\* ends with NavigationEnd, and the router nested in it starts one of its own.
C13_Witness ==
    /\ Len(Nav("r1")) > 0
    /\ Nav("r1")[1].ev = "new"
    /\ Has(Nav("r1"), "global", "NavigationEnd")
    /\ Has(Nav("r2"), "global", "NavigationStart")

\* C14: a router has at most one page child, and whenever currentRoute is
\* set that child is the page instantiated from currentRoute's component
\* (in every reachable state, so also in those reached by navigations that
\* do not overlap).
C14_AtMostOnePage ==
    \A r \in Routers :
       /\ Len(childNodes[r]) <= 1
       /\ currentRoute[r] \notin {Undefined, Null} =>
             childNodes[r] = <<PageOf(currentRoute[r])>>

\* A second navigation, started after the first had rendered, has replaced
\* the first one's page by its own.
C14_Witness ==
    \E r \in Routers :
       /\ started[r] = <<currentRoute[r]>>
       /\ rendered[r] = 1
       /\ HasEv(Nav(r), "removeChild")
       /\ HasEv(Nav(r), "appendChild")
       /\ Len(childNodes[r]) = 1

\* The errors thrown while the component is resolved or the page constructed.
ComponentErrors == {"FactoryError", "ComponentError", "ConstructError"}

\* Router r's loadPath was cancelled by a guard, or failed on its component,
\* in the operation that gave `nav`.
NotRendered(nav) ==
    \/ Has(nav, "global", "NavigationCancel")
    \/ \E k \in 1..Len(nav) : nav[k].ev = "throw" /\ nav[k].arg \in ComponentErrors

\* C15: a loadPath that is cancelled by a guard, or that fails while its
\* component is resolved or its page constructed, instantiates nothing and
\* leaves currentRoute and the page as they were, so that the route is not
\* recorded as current unless it was before; and no step in which the
\* router instantiates no page (the part of a navigation before its await
\* included) changes currentRoute or the page.
C15_FailedNavigationChangesNothing ==
    [][\A r \in Routers :
          /\ ~HasEv(Nav(r)', "new") =>
                /\ currentRoute'[r] = currentRoute[r]
                /\ childNodes'[r] = childNodes[r]
          /\ NotRendered(Nav(r)') =>
                /\ \A k \in 1..Len(Nav(r)') :
                      Nav(r)'[k].ev \notin {"new", "removeChild", "appendChild",
                                            "didChangeRoute"}
                /\ currentRoute'[r] = currentRoute[r]
                /\ childNodes'[r] = childNodes[r]
                /\ currentRoute[r] # Nav(r)'[1].route
                      => currentRoute'[r] # Nav(r)'[1].route
                /\ NothingSuspended(r, pending, pending')]_vars

\* A router that shows the page of one route is sent to another route, and
\* a guard of that route cancels the navigation.
C15_Witness ==
    \E r \in Routers :
       /\ Has(Nav(r), "global", "NavigationCancel")
       /\ Len(childNodes[r]) = 1
       /\ currentRoute[r] \notin {Undefined, Nav(r)[1].route}

\* C16: after disconnectedCallback the router's handler is subscribed to no
\* source, neither its parent's didChangeRoute nor the global PopState and
\* OnPushState; and as long as it is subscribed to none, no operation other
\* than a setup of the router or an assignment of its parentRouter starts
\* its loadPath or subscribes it again.
C16_DisconnectedHearsNothing ==
    [][\A r \in Routers :
          /\ Called({"disconnectedCallback"}, r)' => Sources(r)' = {}
          /\ (Sources(r) = {} /\ ~Called({"setup", "parentRouter"}, r)') =>
                /\ ~HasEv(Nav(r)', "loadPath")
                /\ Sources(r)' = {}]_vars

\* The nested router was set up under the outer one and then disconnected;
\* the outer router changes its route and dispatches didChangeRoute, and the
\* nested router does not run.
C16_Witness ==
    /\ parentRouter["r2"] = "r1"
    /\ Len(Routes("r2")) > 0
    /\ Sources("r2") = {}
    /\ HasEv(Nav("r1"), "didChangeRoute")
    /\ Nav("r2") = <<>>

\* C17: a loadPath that passed its guards, is no redirect and did not fail
\* scrolls the window to the top, once, unless the scrollToTop flag of its
\* route is false (it does when the flag is absent), also when the route
\* was current already; a loadPath that is cancelled, redirects or throws
\* does not scroll, nor does one before its await.
C17_ScrollToTopByDefault ==
    \A r \in Routers :
       LET nav == Nav(r)
           n == Len(nav)
           scrolls == {k \in 1..n : nav[k].ev = "scrollTo"}
       IN /\ (\/ Has(nav, "global", "NavigationCancel")
               \/ HasEv(nav, "replaceState")
               \/ HasEv(nav, "throw")
               \/ (n > 0 /\ nav[n].ev = "await")) => scrolls = {}
          /\ (/\ n > 0
              /\ nav[n].ev = "return"
              /\ ~Has(nav, "global", "NavigationCancel")
              /\ ~HasEv(nav, "replaceState"))
             => IF Route(nav[n].route).scrollToTop = Some(FALSE)
                THEN scrolls = {}
                ELSE /\ Cardinality(scrolls) = 1
                     /\ \A k \in scrolls : nav[k] = Ev("scrollTo", r, nav[n].route, "top")

\* A router is sent to the route it already shows, whose entry has no
\* scrollToTop flag, and scrolls the window to the top.
C17_Witness ==
    \E r \in Routers :
       /\ Len(Nav(r)) > 0
       /\ Nav(r)[1].ev = "loadPath"
       /\ Nav(r)[1].route = currentRoute[r]
       /\ IsNullish(Route(Nav(r)[1].route).scrollToTop)
       /\ ~HasEv(Nav(r), "appendChild")
       /\ HasEv(Nav(r), "scrollTo")

====
